---- MODULE Spec2Model ----
(***************************************************************************)
(* Model of src/src/pdf-to-gpt.py: the citation dataset builder.          *)
(*                                                                         *)
(* Strings are sequences of lexical tokens: a token is a whitespace        *)
(* character (" " or "\n"), a file extension (".pdf", ".PDF", ".txt") or   *)
(* a word.  str.strip, str.lower, str.endswith, os.path.splitext and the   *)
(* regular expression \s+ are computed on these sequences.                 *)
(*                                                                         *)
(* Python values that may be None are tagged records: [none |-> TRUE],     *)
(* [str |-> s], [int |-> n].  A dict whose keys vary (a citation entry) is *)
(* a TLA+ record whose DOMAIN is the set of keys present.                  *)
(***************************************************************************)
EXTENDS Naturals, Sequences, FiniteSets

VARIABLES
    \* load_sharepoint_links
    csv,              \* the file at csv_path: [readable, header, rows], or NoCsv
    lpc,              \* position in load_sharepoint_links
    li,               \* number of rows the reader has yielded so far
    mapping,          \* the local `mapping` dict
    loadErr,          \* TRUE once the except clause of line 44 has run
    \* extract_pdf_info
    pdfIn,            \* the file at pdf_path: [file, readable, meta, pages]
    ppc,              \* position in extract_pdf_info
    pgi,              \* enumerate index i of the page loop
    sp_data,          \* sharepoint_links.get(file_key)
    doc_title,        \* local doc_title
    citations,        \* local citations list
    pdfErr,           \* TRUE once the except clause of line 96 has run
    \* extract_web_info
    webIn,            \* [url, ok, page]: the URL and what the fetch gives
    wpc,              \* position in extract_web_info
    webCitations,     \* local citations list of extract_web_info
    \* generate_citation_dataset
    pc,               \* position in generate_citation_dataset
    folder,           \* the folder: [exists, files]
    urls,             \* the urls parameter
    sharepoint_links, \* the registry held by the run (or passed to extract_pdf_info)
    fi,               \* files of the listing consumed so far
    ui,               \* urls consumed so far
    all_citations,    \* the aggregate list
    output,           \* what the output file holds
    trace             \* history: the calls made by the run, in order

loadVars == <<csv, lpc, li, mapping, loadErr>>
pdfVars  == <<pdfIn, ppc, pgi, sp_data, doc_title, citations, pdfErr>>
webVars  == <<webIn, wpc, webCitations>>
runVars  == <<pc, folder, urls, fi, ui, all_citations, output, trace>>
vars     == <<loadVars, pdfVars, webVars, runVars, sharepoint_links>>
\* what a step of each callee leaves alone
loadFrame == <<pdfVars, webVars, runVars, sharepoint_links>>
pdfFrame  == <<loadVars, webVars, runVars, sharepoint_links>>
webFrame  == <<loadVars, pdfVars, runVars, sharepoint_links>>

-----------------------------------------------------------------------------
(* Bounds of the model.                                                    *)
MaxRows    == 2   \* rows of a registry file (load_sharepoint_links alone)
MaxPages   == 3   \* pages of a PDF (extract_pdf_info alone)
MaxStrings == 2   \* text nodes in a page body (extract_web_info alone)
MaxFiles   == 2   \* directory entries of a run
MaxUrls    == 1   \* URLs of a run
MaxRunPages == 2  \* pages of a PDF met during a run

-----------------------------------------------------------------------------
(* Python values.                                                          *)
PyNone    == [none |-> TRUE]
PyStr(s)  == [str |-> s]
PyInt(n)  == [int |-> n]
IsNone(v) == "none" \in DOMAIN v
IsStr(v)  == "str" \in DOMAIN v
IsInt(v)  == "int" \in DOMAIN v
\* bool(v) for None, str and int
Truthy(v) == IF IsNone(v) THEN FALSE
             ELSE IF IsStr(v) THEN v.str # <<>>
             ELSE v.int # 0

EmptyMap == [k \in {} |-> TRUE]
\* d[k] = v
DictSet(d, k, v) == [x \in DOMAIN d \cup {k} |-> IF x = k THEN v ELSE d[x]]
\* d.get(k)
DictGet(d, k) == IF k \in DOMAIN d THEN d[k] ELSE PyNone

-----------------------------------------------------------------------------
(* String functions.                                                       *)
WS == {" ", "\n"}

RECURSIVE LStrip(_)
LStrip(s) == IF s # <<>> /\ Head(s) \in WS THEN LStrip(Tail(s)) ELSE s

RECURSIVE RStrip(_)
RStrip(s) == IF s # <<>> /\ s[Len(s)] \in WS
             THEN RStrip(SubSeq(s, 1, Len(s) - 1)) ELSE s

\* str.strip()
Strip(s) == RStrip(LStrip(s))

LowerTok(c) == CASE c = "A" -> "a"
                 [] c = "B" -> "b"
                 [] c = "T" -> "t"
                 [] c = "L" -> "l"
                 [] c = "M" -> "m"
                 [] c = ".PDF" -> ".pdf"
                 [] OTHER -> c
\* str.lower()
Lower(s) == [i \in 1..Len(s) |-> LowerTok(s[i])]

\* re.sub(r'\s+', ' ', s): every run of whitespace becomes one space
RECURSIVE CollapseWs(_)
CollapseWs(s) ==
    IF s = <<>> THEN <<>>
    ELSE IF Head(s) \in WS
         THEN <<" ">> \o CollapseWs(LStrip(s))
         ELSE <<Head(s)>> \o CollapseWs(Tail(s))

\* re.sub(r'\s+', ' ', text).strip()
Normalize(s) == Strip(CollapseWs(s))

\* " ".join(strs)
RECURSIVE JoinSp(_)
JoinSp(strs) ==
    IF strs = <<>> THEN <<>>
    ELSE IF Len(strs) = 1 THEN strs[1]
    ELSE strs[1] \o <<" ">> \o JoinSp(Tail(strs))

ExtTokens == {".pdf", ".PDF", ".txt"}
\* file.lower().endswith('.pdf')
EndsWithPdf(name) == name # <<>> /\ Lower(name)[Len(name)] = ".pdf"
\* os.path.splitext(name)[0]: a leading extension is part of the stem
SplitExtStem(name) ==
    IF Len(name) >= 2 /\ name[Len(name)] \in ExtTokens
    THEN SubSeq(name, 1, Len(name) - 1) ELSE name

-----------------------------------------------------------------------------
(* load_sharepoint_links                                                   *)
ColDocName == <<"Document", " ", "Name">>
ColTitle   == <<"Title">>
ColWebLink == <<"Web", " ", "Link">>

NoCsv == [none |-> TRUE]

\* csv.DictReader row, then line 28: the value under the stripped column name
\* `col`: absent when no header field strips to it, None when the row is too
\* short to have a value for it (DictReader's restval), else the field.
ColIndexes(header, col) == {i \in 1..Len(header) : Strip(header[i]) = col}
HasCol(header, col) == ColIndexes(header, col) # {}
LastIndex(S) == CHOOSE i \in S : \A j \in S : j <= i
RowValue(header, row, col) ==
    LET i == LastIndex(ColIndexes(header, col))
    IN  IF i <= Len(row) THEN PyStr(row[i]) ELSE PyNone
\* row.get(col)
RowGet(header, row, col) ==
    IF HasCol(header, col) THEN RowValue(header, row, col) ELSE PyNone
\* row.get(col, "")
RowGetDefault(header, row, col) ==
    IF HasCol(header, col) THEN RowValue(header, row, col) ELSE PyStr(<<>>)

\* line 37 without .lower()
DocKeyNoLower(raw) == Strip(raw)
\* line 37
DocKey(raw) == Lower(Strip(raw))

\* lines 40-43
Entry(title, web_link) == [title |-> title, web_link |-> web_link]

\* mapping = {} and the open() of line 22; reader.fieldnames is read at line 25
LoadOpen ==
    /\ lpc = "open"
    /\ mapping' = EmptyMap
    /\ li' = 0
    /\ IF csv.readable
       THEN lpc' = "rows" /\ loadErr' = FALSE
       ELSE lpc' = "returned" /\ loadErr' = TRUE
    /\ UNCHANGED csv
    /\ UNCHANGED loadFrame

\* one iteration of the loop of line 26 for a row whose document name is
\* missing or empty: lines 33-36
LoadRowSkip ==
    /\ lpc = "rows"
    /\ li < Len(csv.rows)
    /\ ~Truthy(RowGet(csv.header, csv.rows[li + 1], ColDocName))
    /\ li' = li + 1
    /\ UNCHANGED <<csv, lpc, mapping, loadErr>>
    /\ UNCHANGED loadFrame

\* one iteration that stores an entry: lines 33-43
LoadRowStore ==
    /\ lpc = "rows"
    /\ li < Len(csv.rows)
    /\ LET row   == csv.rows[li + 1]
           name  == RowGet(csv.header, row, ColDocName)
           title == RowGetDefault(csv.header, row, ColTitle)
           link  == RowGetDefault(csv.header, row, ColWebLink)
       IN  /\ Truthy(name)
           /\ IsStr(title) /\ IsStr(link)
           /\ mapping' = DictSet(mapping, DocKey(name.str),
                                 Entry(Strip(title.str), Strip(link.str)))
    /\ li' = li + 1
    /\ UNCHANGED <<csv, lpc, loadErr>>
    /\ UNCHANGED loadFrame

\* one iteration in which None.strip() raises at line 38 or 39; the except
\* clause of line 44 ends the load
LoadRowRaise ==
    /\ lpc = "rows"
    /\ li < Len(csv.rows)
    /\ LET row   == csv.rows[li + 1]
           name  == RowGet(csv.header, row, ColDocName)
           title == RowGetDefault(csv.header, row, ColTitle)
           link  == RowGetDefault(csv.header, row, ColWebLink)
       IN  /\ Truthy(name)
           /\ IsNone(title) \/ IsNone(link)
    /\ li' = li + 1
    /\ loadErr' = TRUE
    /\ lpc' = "returned"
    /\ UNCHANGED <<csv, mapping>>
    /\ UNCHANGED loadFrame

\* the reader is exhausted: return mapping (line 46)
LoadEnd ==
    /\ lpc = "rows"
    /\ li = Len(csv.rows)
    /\ lpc' = "returned"
    /\ UNCHANGED <<csv, li, mapping, loadErr>>
    /\ UNCHANGED loadFrame

LoadStep == LoadOpen \/ LoadRowSkip \/ LoadRowStore \/ LoadRowRaise \/ LoadEnd

-----------------------------------------------------------------------------
(* extract_pdf_info                                                        *)
NoPdf  == [none |-> TRUE]
Raises == [raise |-> TRUE]

\* line 66 without .lower()
FileKeyNoLower(file) == Strip(file)
\* lines 63 and 66; pdfIn.file is os.path.basename(pdf_path)
FileName(file) == Strip(file)
FileKey(file) == Lower(FileName(file))

\* bool(d) of a dict that may be None
DictTruthy(d) == ~IsNone(d) /\ DOMAIN d # {}

\* metadata.title when `metadata and metadata.title`, else None (line 78)
MetaTitle(meta) == IF IsNone(meta) THEN PyNone ELSE meta.title

\* lines 78-81
ResolveTitle(file, meta, sp) ==
    LET fromPdf == IF Truthy(MetaTitle(meta)) THEN MetaTitle(meta)
                   ELSE PyStr(SplitExtStem(FileName(file)))
    IN  IF DictTruthy(sp) THEN PyStr(sp.title) ELSE fromPdf

\* line 84: page.extract_text() or ""
TextOrEmpty(t) == IF Truthy(t) THEN t ELSE PyStr(<<>>)
\* lines 84-85
PageText(t) == PyStr(Normalize(TextOrEmpty(t).str))

\* line 89 without the + 1
PageNumberZeroBased(i) == PyInt(i)
\* line 89
PageNumber(i) == PyInt(i + 1)

\* line 93
HasWebLink(sp) == DictTruthy(sp) /\ sp.web_link # <<>>

\* lines 86-94
PdfCitation(title, i, text, sp) ==
    IF HasWebLink(sp)
    THEN [source_type |-> PyStr(<<"pdf">>), document_title |-> title,
          page_number |-> PageNumber(i), text |-> PageText(text),
          web_link |-> PyStr(sp.web_link)]
    ELSE [source_type |-> PyStr(<<"pdf">>), document_title |-> title,
          page_number |-> PageNumber(i), text |-> PageText(text)]

\* lines 62-71
PdfStart ==
    /\ ppc = "start"
    /\ citations' = <<>>
    /\ sp_data' = DictGet(sharepoint_links, FileKey(pdfIn.file))
    /\ pdfErr' = FALSE
    /\ ppc' = "open"
    /\ UNCHANGED <<pdfIn, pgi, doc_title>>
    /\ UNCHANGED pdfFrame

\* lines 74-75 raise (missing or corrupt file): the except clause of line 96
PdfOpenRaise ==
    /\ ppc = "open"
    /\ ~pdfIn.readable
    /\ pdfErr' = TRUE
    /\ ppc' = "returned"
    /\ UNCHANGED <<pdfIn, pgi, sp_data, doc_title, citations>>
    /\ UNCHANGED pdfFrame

\* lines 74-81
PdfOpen ==
    /\ ppc = "open"
    /\ pdfIn.readable
    /\ doc_title' = ResolveTitle(pdfIn.file, pdfIn.meta, sp_data)
    /\ pgi' = 0
    /\ ppc' = "pages"
    /\ UNCHANGED <<pdfIn, sp_data, citations, pdfErr>>
    /\ UNCHANGED pdfFrame

\* one iteration of the loop of line 83
PdfPage ==
    /\ ppc = "pages"
    /\ pgi < Len(pdfIn.pages)
    /\ pdfIn.pages[pgi + 1] # Raises
    /\ citations' = Append(citations,
                           PdfCitation(doc_title, pgi, pdfIn.pages[pgi + 1], sp_data))
    /\ pgi' = pgi + 1
    /\ UNCHANGED <<pdfIn, ppc, sp_data, doc_title, pdfErr>>
    /\ UNCHANGED pdfFrame

\* the except clause of line 96, were it to drop the records already made
PdfPageRaiseDiscard ==
    /\ ppc = "pages"
    /\ pgi < Len(pdfIn.pages)
    /\ pdfIn.pages[pgi + 1] = Raises
    /\ pdfErr' = TRUE
    /\ ppc' = "returned"
    /\ citations' = <<>>
    /\ UNCHANGED <<pdfIn, pgi, sp_data, doc_title>>
    /\ UNCHANGED pdfFrame

\* page.extract_text() raises at line 84: the except clause of line 96
PdfPageRaise ==
    /\ ppc = "pages"
    /\ pgi < Len(pdfIn.pages)
    /\ pdfIn.pages[pgi + 1] = Raises
    /\ pdfErr' = TRUE
    /\ ppc' = "returned"
    /\ UNCHANGED <<pdfIn, pgi, sp_data, doc_title, citations>>
    /\ UNCHANGED pdfFrame

\* the loop is over: return citations (line 98)
PdfEnd ==
    /\ ppc = "pages"
    /\ pgi = Len(pdfIn.pages)
    /\ ppc' = "returned"
    /\ UNCHANGED <<pdfIn, pgi, sp_data, doc_title, citations, pdfErr>>
    /\ UNCHANGED pdfFrame

PdfStep == PdfStart \/ PdfOpenRaise \/ PdfOpen \/ PdfPage \/ PdfPageRaise \/ PdfEnd

-----------------------------------------------------------------------------
(* extract_web_info                                                        *)
NoWeb == [none |-> TRUE]

\* the text nodes of the parsed page, in document order: the title element's
\* text, when it has one, then the body's
TextNodes(page) ==
    (IF IsStr(page.title) /\ page.title.str # <<>> THEN <<page.title.str>> ELSE <<>>)
    \o page.body

\* soup.stripped_strings (line 124): each node stripped, the empty ones dropped
RECURSIVE StrippedStrings(_)
StrippedStrings(nodes) ==
    IF nodes = <<>> THEN <<>>
    ELSE IF Strip(Head(nodes)) = <<>> THEN StrippedStrings(Tail(nodes))
    ELSE <<Strip(Head(nodes))>> \o StrippedStrings(Tail(nodes))

\* lines 121-122: a bs4 Tag is truthy whatever it contains, so title_tag is
\* falsy only when soup.find returned None
WebTitle(url, page) ==
    IF IsNone(page.title) THEN PyStr(url) ELSE PyStr(Strip(page.title.str))

\* lines 124-126
WebText(page) == PyStr(Normalize(JoinSp(StrippedStrings(TextNodes(page)))))

\* lines 128-134 without the 'url' key
WebCitationNoUrl(url, page) ==
    [source_type |-> PyStr(<<"web">>), document_title |-> WebTitle(url, page),
     page_number |-> PyNone, text |-> WebText(page)]
\* lines 128-134
WebCitation(url, page) ==
    [source_type |-> PyStr(<<"web">>), document_title |-> WebTitle(url, page),
     page_number |-> PyNone, text |-> WebText(page), url |-> PyStr(url)]

\* line 115
WebStart ==
    /\ wpc = "start"
    /\ webCitations' = <<>>
    /\ wpc' = "get"
    /\ UNCHANGED webIn
    /\ UNCHANGED webFrame

\* lines 117-118 raise (network failure, timeout, non-success status)
WebGetRaise ==
    /\ wpc = "get"
    /\ ~webIn.ok
    /\ wpc' = "returned"
    /\ UNCHANGED <<webIn, webCitations>>
    /\ UNCHANGED webFrame

\* lines 117-134
WebGet ==
    /\ wpc = "get"
    /\ webIn.ok
    /\ webCitations' = Append(webCitations, WebCitation(webIn.url, webIn.page))
    /\ wpc' = "returned"
    /\ UNCHANGED webIn
    /\ UNCHANGED webFrame

WebStep == WebStart \/ WebGetRaise \/ WebGet

-----------------------------------------------------------------------------
(* generate_citation_dataset                                               *)

\* line 156, when sharepoint_csv is given
RunStartLoad ==
    /\ pc = "start"
    /\ csv # NoCsv
    /\ all_citations' = <<>>
    /\ lpc' = "open"
    /\ pc' = "loading"
    /\ trace' = Append(trace, [op |-> "load"])
    /\ UNCHANGED <<csv, li, mapping, loadErr, pdfVars, webVars, folder, urls,
                   fi, ui, output, sharepoint_links>>

\* line 156, when sharepoint_csv is empty or None
RunStartNoCsv ==
    /\ pc = "start"
    /\ csv = NoCsv
    /\ all_citations' = <<>>
    /\ sharepoint_links' = EmptyMap
    /\ pc' = "listdir"
    /\ UNCHANGED <<loadVars, pdfVars, webVars, folder, urls, fi, ui, output, trace>>

\* load_sharepoint_links has returned: the assignment of line 156
RunLoaded ==
    /\ pc = "loading"
    /\ lpc = "returned"
    /\ sharepoint_links' = mapping
    /\ lpc' = "idle"
    /\ pc' = "listdir"
    /\ UNCHANGED <<csv, li, mapping, loadErr, pdfVars, webVars, folder, urls,
                   fi, ui, all_citations, output, trace>>

\* os.listdir(folder) raises at line 159, outside any try: the exception
\* leaves generate_citation_dataset
RunListdirRaise ==
    /\ pc = "listdir"
    /\ ~folder.exists
    /\ pc' = "raised"
    /\ UNCHANGED <<loadVars, pdfVars, webVars, folder, urls, fi, ui,
                   all_citations, output, trace, sharepoint_links>>

\* line 159
RunListdir ==
    /\ pc = "listdir"
    /\ folder.exists
    /\ fi' = 0
    /\ pc' = "files"
    /\ UNCHANGED <<loadVars, pdfVars, webVars, folder, urls, ui,
                   all_citations, output, trace, sharepoint_links>>

\* lines 159-160 for an entry that is no PDF
RunSkipFile ==
    /\ pc = "files"
    /\ fi < Len(folder.files)
    /\ ~EndsWithPdf(folder.files[fi + 1])
    /\ fi' = fi + 1
    /\ UNCHANGED <<loadVars, pdfVars, webVars, pc, folder, urls, ui,
                   all_citations, output, trace, sharepoint_links>>

\* what a PDF of the folder may hold
PageOutcomes == {PyNone, PyStr(<<>>), PyStr(<<" ", "x", "\n", " ", "y">>), Raises}
RunPageOutcomes == {PyNone, Raises}
Metas == {PyNone, [title |-> PyNone], [title |-> PyStr(<<>>)], [title |-> PyStr(<<"M">>)]}
RunMetas == {[title |-> PyStr(<<"M">>)]}
SeqsUpTo(S, n) == UNION {[1..k -> S] : k \in 0..n}
PdfFiles(file, metas, outcomes, n) ==
    {[file |-> file, readable |-> FALSE, meta |-> PyNone, pages |-> <<>>]}
    \cup {[file |-> file, readable |-> TRUE, meta |-> m, pages |-> ps] :
            m \in metas, ps \in SeqsUpTo(outcomes, n)}

\* lines 160-163: the call of extract_pdf_info
RunCallPdf ==
    /\ pc = "files"
    /\ fi < Len(folder.files)
    /\ EndsWithPdf(folder.files[fi + 1])
    /\ \E p \in PdfFiles(folder.files[fi + 1], RunMetas, RunPageOutcomes, MaxRunPages) :
           pdfIn' = p
    /\ ppc' = "start"
    /\ pc' = "in_pdf"
    /\ UNCHANGED <<loadVars, pgi, sp_data, doc_title, citations, pdfErr, webVars,
                   folder, urls, fi, ui, all_citations, output, trace,
                   sharepoint_links>>

\* line 164, and the callee's locals go out of scope
RunPdfReturned ==
    /\ pc = "in_pdf"
    /\ ppc = "returned"
    /\ all_citations' = all_citations \o citations
    /\ trace' = Append(trace, [op |-> "pdf", idx |-> fi + 1, failed |-> pdfErr,
                               n |-> Len(citations)])
    /\ fi' = fi + 1
    /\ pc' = "files"
    /\ ppc' = "idle"
    /\ pdfIn' = NoPdf /\ pgi' = 0 /\ sp_data' = PyNone /\ doc_title' = PyNone
    /\ citations' = <<>> /\ pdfErr' = FALSE
    /\ UNCHANGED <<loadVars, webVars, folder, urls, ui, output, sharepoint_links>>

\* the loop of line 159 is over
RunFilesDone ==
    /\ pc = "files"
    /\ fi = Len(folder.files)
    /\ ui' = 0
    /\ pc' = "urls"
    /\ UNCHANGED <<loadVars, pdfVars, webVars, folder, urls, fi,
                   all_citations, output, trace, sharepoint_links>>

\* what a URL may answer
Titles == {PyNone, PyStr(<<>>), PyStr(<<" ">>), PyStr(<<"T">>), PyStr(<<" ", "T", "\n">>)}
RunTitles == {PyNone, PyStr(<<"T">>)}
BodyNodes == {<<" ">>, <<"x">>, <<" ", "y", "\n", "z">>}
WebAnswers(url, titles, nodes, n) ==
    {[url |-> url, ok |-> FALSE, page |-> PyNone]}
    \cup {[url |-> url, ok |-> TRUE, page |-> [title |-> t, body |-> b]] :
            t \in titles, b \in SeqsUpTo(nodes, n)}

\* lines 167-169: the call of extract_web_info
RunCallWeb ==
    /\ pc = "urls"
    /\ ui < Len(urls)
    /\ \E w \in WebAnswers(urls[ui + 1], RunTitles, BodyNodes, 0) : webIn' = w
    /\ wpc' = "start"
    /\ pc' = "in_web"
    /\ UNCHANGED <<loadVars, pdfVars, webCitations, folder, urls, fi, ui,
                   all_citations, output, trace, sharepoint_links>>

\* line 170, and the callee's locals go out of scope
RunWebReturned ==
    /\ pc = "in_web"
    /\ wpc = "returned"
    /\ all_citations' = all_citations \o webCitations
    /\ trace' = Append(trace, [op |-> "web", idx |-> ui + 1, failed |-> ~webIn.ok,
                               n |-> Len(webCitations)])
    /\ ui' = ui + 1
    /\ pc' = "urls"
    /\ wpc' = "idle"
    /\ webIn' = NoWeb /\ webCitations' = <<>>
    /\ UNCHANGED <<loadVars, pdfVars, folder, urls, fi, output, sharepoint_links>>

\* the loop of line 167 is over
RunUrlsDone ==
    /\ pc = "urls"
    /\ ui = Len(urls)
    /\ pc' = "write"
    /\ UNCHANGED <<loadVars, pdfVars, webVars, folder, urls, fi, ui,
                   all_citations, output, trace, sharepoint_links>>

NoOutput == [none |-> TRUE]

\* lines 173-178: the destination is writable or not; either way the
\* function returns
RunWrite ==
    /\ pc = "write"
    /\ \E writable \in BOOLEAN :
         /\ output' = IF writable THEN [citations |-> all_citations] ELSE output
         /\ trace' = Append(trace, [op |-> "write", ok |-> writable])
    /\ pc' = "done"
    /\ UNCHANGED <<loadVars, pdfVars, webVars, folder, urls, fi, ui,
                   all_citations, sharepoint_links>>

RunStep ==
    \/ RunStartLoad \/ RunStartNoCsv \/ RunLoaded
    \/ RunListdirRaise \/ RunListdir \/ RunSkipFile \/ RunCallPdf
    \/ RunPdfReturned \/ RunFilesDone \/ RunCallWeb \/ RunWebReturned
    \/ RunUrlsDone \/ RunWrite

-----------------------------------------------------------------------------
(* Inputs and specifications.                                              *)
DocNames   == {<<>>, <<" ">>, <<"a", ".pdf">>, <<" ", "A", ".PDF", " ">>}
RowTitles  == {<<>>, <<" ", "T">>}
RowLinks   == {<<>>, <<"L", " ">>}
\* a row has 1 to 3 fields
Rows == {<<n>> : n \in DocNames}
        \cup {<<n, t>> : n \in DocNames, t \in RowTitles}
        \cup {<<n, t, l>> : n \in DocNames, t \in RowTitles, l \in RowLinks}
Headers == {<<ColDocName, ColTitle, ColWebLink>>,
            <<<<" ">> \o ColDocName, ColTitle \o <<" ">>, ColWebLink>>,
            <<ColDocName, ColWebLink>>}
Unreadable == [readable |-> FALSE, header |-> <<>>, rows |-> <<>>]
CsvFiles ==
    {Unreadable}
    \cup {[readable |-> TRUE, header |-> h, rows |-> rs] :
            h \in Headers, rs \in SeqsUpTo(Rows, MaxRows)}
\* the registry files of a run
RunCsvFiles ==
    {Unreadable,
     [readable |-> TRUE, header |-> <<ColDocName, ColTitle, ColWebLink>>,
      rows |-> << <<<<"a", ".pdf">>, <<"T">>, <<"L">>>>, <<<<>>, <<"T">>, <<"L">>>> >>],
     [readable |-> TRUE, header |-> <<ColDocName, ColTitle, ColWebLink>>,
      rows |-> << <<<<"A", ".PDF">>, <<>>, <<>>>>, <<<<"b", ".pdf">>>> >>]}

FileNames == {<<"a", ".pdf">>, <<"A", ".PDF">>, <<" ", "a", ".pdf">>, <<"c", ".txt">>}
RunFileNames == {<<"a", ".pdf">>, <<"A", ".PDF">>, <<"c", ".txt">>}
Urls == {<<"u1">>, <<"u2">>}
Distinct(s) == \A i, j \in 1..Len(s) : i # j => s[i] # s[j]
Folders ==
    {[exists |-> FALSE, files |-> <<>>]}
    \cup {[exists |-> TRUE, files |-> fs] :
            fs \in {s \in SeqsUpTo(RunFileNames, MaxFiles) : Distinct(s)}}

\* registries load_sharepoint_links can return, for extract_pdf_info alone
Registries ==
    {EmptyMap}
    \cup {[k \in {<<"a", ".pdf">>} |-> Entry(t, l)] :
            t \in {<<>>, <<"T">>}, l \in {<<>>, <<"L">>}}

LoadIdle == csv = NoCsv /\ lpc = "idle" /\ li = 0 /\ mapping = EmptyMap /\ loadErr = FALSE
PdfIdle  == /\ pdfIn = NoPdf /\ ppc = "idle" /\ pgi = 0 /\ sp_data = PyNone
            /\ doc_title = PyNone /\ citations = <<>> /\ pdfErr = FALSE
WebIdle  == webIn = NoWeb /\ wpc = "idle" /\ webCitations = <<>>
RunIdle  == /\ pc = "idle" /\ folder = [exists |-> FALSE, files |-> <<>>]
            /\ urls = <<>> /\ fi = 0 /\ ui = 0 /\ all_citations = <<>>
            /\ output = NoOutput /\ trace = <<>>

\* a call of generate_citation_dataset
Init ==
    /\ csv \in RunCsvFiles \cup {NoCsv}
    /\ lpc = "idle" /\ li = 0 /\ mapping = EmptyMap /\ loadErr = FALSE
    /\ PdfIdle /\ WebIdle
    /\ pc = "start"
    /\ folder \in Folders
    /\ urls \in SeqsUpTo(Urls, MaxUrls)
    /\ fi = 0 /\ ui = 0 /\ all_citations = <<>> /\ output = NoOutput /\ trace = <<>>
    /\ sharepoint_links = EmptyMap

Next == RunStep \/ LoadStep \/ PdfStep \/ WebStep

Spec == Init /\ [][Next]_vars

\* a call of load_sharepoint_links alone
InitLoad ==
    /\ csv \in CsvFiles
    /\ lpc = "open" /\ li = 0 /\ mapping = EmptyMap /\ loadErr = FALSE
    /\ PdfIdle /\ WebIdle /\ RunIdle
    /\ sharepoint_links = EmptyMap

SpecLoad == InitLoad /\ [][LoadStep]_vars

\* a call of extract_pdf_info alone
InitPdf ==
    /\ LoadIdle /\ WebIdle /\ RunIdle
    /\ sharepoint_links \in Registries
    /\ pdfIn \in UNION {PdfFiles(f, Metas, PageOutcomes, MaxPages) : f \in FileNames}
    /\ ppc = "start" /\ pgi = 0 /\ sp_data = PyNone /\ doc_title = PyNone
    /\ citations = <<>> /\ pdfErr = FALSE

SpecPdf == InitPdf /\ [][PdfStep]_vars

\* a call of extract_web_info alone
InitWeb ==
    /\ LoadIdle /\ PdfIdle /\ RunIdle
    /\ sharepoint_links = EmptyMap
    /\ webIn \in UNION {WebAnswers(u, Titles, BodyNodes, MaxStrings) : u \in Urls}
    /\ wpc = "start" /\ webCitations = <<>>

SpecWeb == InitWeb /\ [][WebStep]_vars

-----------------------------------------------------------------------------
(* Properties.                                                             *)

RunEnded == pc \in {"done", "raised"}

\* C1: whatever the inputs and whichever collaborator fails,
\* generate_citation_dataset catches the error and completes: no exception
\* leaves it.
C1_NoErrorLeavesBuild == pc # "raised"

\* the title the resolution order of C2 gives
C2Key == Lower(Strip(pdfIn.file))
C2Expected ==
    IF C2Key \in DOMAIN sharepoint_links /\ sharepoint_links[C2Key].title # <<>>
    THEN PyStr(sharepoint_links[C2Key].title)
    ELSE IF ~IsNone(pdfIn.meta) /\ Truthy(pdfIn.meta.title)
    THEN pdfIn.meta.title
    ELSE PyStr(SplitExtStem(Strip(pdfIn.file)))

\* C2: every record extract_pdf_info returns has as document_title the
\* registry entry's title if the entry exists and its title is non-empty,
\* otherwise the metadata title if there is one, otherwise the file name
\* without extension; an empty registry title overrides nothing.
C2_TitleResolutionOrder ==
    ppc = "returned" =>
        \A k \in 1..Len(citations) : citations[k].document_title = C2Expected

\* a registry file with the three columns and three fields in every row
WellFormedCsv ==
    /\ csv # NoCsv
    /\ csv.readable
    /\ Len(csv.header) = 3
    /\ Strip(csv.header[1]) = ColDocName
    /\ Strip(csv.header[2]) = ColTitle
    /\ Strip(csv.header[3]) = ColWebLink
    /\ \A i \in 1..Len(csv.rows) : Len(csv.rows[i]) = 3
NamedRows == {i \in 1..Len(csv.rows) : csv.rows[i][1] # <<>>}
RowKey(i) == Lower(Strip(csv.rows[i][1]))
LastRowOf(k) == CHOOSE i \in NamedRows :
                    RowKey(i) = k /\ \A j \in NamedRows : RowKey(j) = k => j <= i

\* C3: for a well-formed registry file, load_sharepoint_links returns one
\* entry per row that has a non-empty document name, keyed by the trimmed,
\* lower-cased name: as many entries as such rows.
C3_OneEntryPerRow ==
    (lpc = "returned" /\ WellFormedCsv) =>
        /\ DOMAIN mapping = {RowKey(i) : i \in NamedRows}
        /\ Cardinality(DOMAIN mapping) = Cardinality(NamedRows)

\* C3, amended: for a well-formed registry file, load_sharepoint_links
\* returns one entry per distinct trimmed, lower-cased document name among
\* the rows that have a non-empty document name, holding the trimmed title
\* and link of the last such row.
C3_OneEntryPerKey ==
    (lpc = "returned" /\ WellFormedCsv) =>
        /\ DOMAIN mapping = {RowKey(i) : i \in NamedRows}
        /\ \A k \in DOMAIN mapping :
               mapping[k] = [title    |-> Strip(csv.rows[LastRowOf(k)][2]),
                             web_link |-> Strip(csv.rows[LastRowOf(k)][3])]

\* two rows whose names differ only in case and padding have been loaded
C3_Witness ==
    /\ lpc = "returned" /\ WellFormedCsv
    /\ Len(csv.rows) = 2
    /\ csv.rows[1][1] = <<"a", ".pdf">>
    /\ csv.rows[2][1] = <<" ", "A", ".PDF", " ">>
    /\ csv.rows[1][2] # csv.rows[2][2]
    /\ Cardinality(DOMAIN mapping) = 1

\* C4: load_sharepoint_links never raises, and whenever an error occurred
\* during the load the mapping it returns is empty.
C4_ErrorGivesEmptyMapping ==
    (lpc = "returned" /\ loadErr) => mapping = EmptyMap

\* C5: the number of records extract_pdf_info returns equals the PDF's page
\* count, also when the text extraction of a page fails.
C5_RecordsEqualPageCount ==
    (ppc = "returned" /\ pdfIn.readable) => Len(citations) = Len(pdfIn.pages)

RaisingPages == {k \in 1..Len(pdfIn.pages) : pdfIn.pages[k] = Raises}
PagesBeforeFailure ==
    IF RaisingPages = {} THEN Len(pdfIn.pages)
    ELSE (CHOOSE k \in RaisingPages : \A j \in RaisingPages : k <= j) - 1

\* C5, amended: the number of records extract_pdf_info returns equals the
\* page count when the PDF opens and every page's text extraction succeeds;
\* when the extraction of page k raises it returns the k-1 records of the
\* pages before it, and none when the PDF cannot be opened.
C5_RecordsUpToFirstFailure ==
    ppc = "returned" =>
        Len(citations) = IF pdfIn.readable THEN PagesBeforeFailure ELSE 0

\* a three-page PDF whose last page fails has returned two records
C5_Witness ==
    /\ ppc = "returned" /\ pdfIn.readable
    /\ Len(pdfIn.pages) = 3
    /\ RaisingPages = {3}
    /\ Len(citations) = 2

\* C6: at every point of an extraction, and in what is returned after a
\* failure, the k-th record of the PDF has page_number k.
C6_PageNumbersCountFromOne ==
    \A k \in 1..Len(citations) : citations[k].page_number = PyInt(k)

\* two records were returned after the third page failed
C6_Witness ==
    /\ ppc = "returned" /\ pdfErr
    /\ Len(citations) = 2

C7Key == Lower(Strip(pdfIn.file))
C7Linked == C7Key \in DOMAIN sharepoint_links
            /\ sharepoint_links[C7Key].web_link # <<>>

\* C7: a record of extract_pdf_info carries web_link exactly when the
\* registry has an entry for the trimmed, lower-cased basename and that
\* entry's web_link is non-empty, and then its value is the entry's web_link
\* on every record.
C7_WebLinkIffRegistryLink ==
    ppc # "idle" =>
        \A k \in 1..Len(citations) :
            /\ ("web_link" \in DOMAIN citations[k]) <=> C7Linked
            /\ C7Linked =>
                   citations[k].web_link = PyStr(sharepoint_links[C7Key].web_link)

\* a PDF whose name matches its registry key only after lower-casing has
\* returned two records carrying the link
C7_Witness ==
    /\ ppc = "returned"
    /\ pdfIn.file = <<"A", ".PDF">>
    /\ Len(citations) >= 2
    /\ "web_link" \in DOMAIN citations[2]

\* C8: for a fetched page the record's document_title is the trimmed text
\* of the title element if there is one and the trimmed text is non-empty,
\* and otherwise the URL.
C8_TitleOrUrl ==
    (wpc = "returned" /\ webIn.ok) =>
        /\ Len(webCitations) = 1
        /\ webCitations[1].document_title =
               IF IsStr(webIn.page.title) /\ Strip(webIn.page.title.str) # <<>>
               THEN PyStr(Strip(webIn.page.title.str))
               ELSE PyStr(webIn.url)

IsPdfRecord(r) == r.source_type = PyStr(<<"pdf">>)
IsWebRecord(r) == r.source_type = PyStr(<<"web">>)
HasValue(r, f) == f \in DOMAIN r /\ ~IsNone(r[f])
IsWebEvent(e) == e.op = "web" /\ e.n = 1
WebRecords == SelectSeq(all_citations, IsWebRecord)
WebEvents  == SelectSeq(trace, IsWebEvent)

\* C9: every record of the aggregate has non-null source_type,
\* document_title and text, a page_number that is an integer >= 1 exactly
\* when it is a pdf record, and a url exactly when it is a web record, which
\* is then the URL given.
C9_RecordShape ==
    /\ \A k \in 1..Len(all_citations) :
          LET r == all_citations[k]
          IN  /\ HasValue(r, "source_type") /\ IsStr(r.source_type)
              /\ IsPdfRecord(r) \/ IsWebRecord(r)
              /\ HasValue(r, "document_title") /\ IsStr(r.document_title)
              /\ HasValue(r, "text") /\ IsStr(r.text)
              /\ HasValue(r, "page_number") <=> IsPdfRecord(r)
              /\ HasValue(r, "page_number") =>
                     IsInt(r.page_number) /\ r.page_number.int >= 1
              /\ HasValue(r, "url") <=> IsWebRecord(r)
    /\ Len(WebRecords) = Len(WebEvents)
    /\ \A k \in 1..Len(WebRecords) :
          WebRecords[k].url = PyStr(urls[WebEvents[k].idx])

\* a finished run whose dataset holds the records of two PDFs, of pages
\* without text, and a web record
C9_Witness ==
    /\ pc = "done"
    /\ Len(all_citations) = 3
    /\ IsPdfRecord(all_citations[1]) /\ all_citations[1].text = PyStr(<<>>)
    /\ IsPdfRecord(all_citations[2])
    /\ IsWebRecord(all_citations[3]) /\ all_citations[3].url = PyStr(<<"u2">>)

IsSource(e) == e.op \in {"pdf", "web"}
PdfIndexes == {i \in 1..Len(folder.files) : EndsWithPdf(folder.files[i])}
EventsOf(op, i) == {k \in 1..Len(trace) : trace[k].op = op /\ trace[k].idx = i}
Writes == {k \in 1..Len(trace) : trace[k].op = "write"}

\* C10: in a run the registry is loaded before any extraction, every PDF and
\* every URL is processed exactly once, the records of the PDFs precede the
\* web records, a failed PDF or URL contributes nothing, and serialization
\* is attempted exactly once, after the last URL.
C10_RunOrder ==
    RunEnded =>
        /\ \A k \in 1..Len(trace) : trace[k].op = "load" => k = 1
        /\ \A i \in PdfIndexes : Cardinality(EventsOf("pdf", i)) = 1
        /\ \A i \in 1..Len(urls) : Cardinality(EventsOf("web", i)) = 1
        /\ \A j, k \in 1..Len(trace) :
               (j < k /\ IsSource(trace[j]) /\ IsSource(trace[k])) =>
                   \/ trace[j].op = "pdf" /\ trace[k].op = "web"
                   \/ trace[j].op = trace[k].op /\ trace[j].idx < trace[k].idx
        /\ \A j, k \in 1..Len(all_citations) :
               (j < k /\ IsWebRecord(all_citations[j])) => IsWebRecord(all_citations[k])
        /\ \A k \in 1..Len(trace) :
               (IsSource(trace[k]) /\ trace[k].failed) => trace[k].n = 0
        /\ Writes = {Len(trace)} /\ Len(trace) >= 1

====
